---- MODULE Spec2Model ----
(***************************************************************************)
(* Model of the paged file store of protomem/embedstore, package data     *)
(* (src/data/data.go): Page, Pager, Metainfo and Freelist.                 *)
(*                                                                         *)
(* Bytes are integers 0..255, byte slices are sequences of bytes, and the  *)
(* backing file is one sequence of bytes addressed by offset.  PageNum is  *)
(* an int64 encoded in 8 little-endian bytes in two's complement.          *)
(***************************************************************************)
EXTENDS Integers, Sequences, FiniteSets, TLC

(***************************************************************************)
(* Program constants (src/data/data.go:10-17).                             *)
(***************************************************************************)
DefaultMetaPage == 0

DefaultFlistPage == DefaultMetaPage + 1

BeginFreeBlocks == DefaultFlistPage + 1

(***************************************************************************)
(* Bounds of the model.                                                    *)
(***************************************************************************)
\* page size handed to NewPager, in bytes: holds a Freelist record with two
\* released entries (12 + 8*2), and not one with three
PageSize == 28

\* number of Next/Release calls recorded on the stand-alone Freelist
MaxOps == 4

\* zero bytes appended to a buffer handed to Deserialize
PadLen == 3

\* value up to which Max grows in the Pager specifications
MaxGrow == 4

\* longest Released list built in the Pager specifications
MaxReleased == 3

\* page numbers handed to Release on the stand-alone Freelist
RelArgs == {-1, BeginFreeBlocks, 3, 258, 16909060}

\* values assigned to Metainfo.Freelist on the stand-alone Metainfo
MetaArgs == {-2, -1, 0, 1, 255, 256, 16909060}

\* page numbers handed to Release on the Pager's Freelist
PagerRelArgs == {BeginFreeBlocks, 3}

\* bytes that reach the file when a positioned write fails
TornLens == {0, 4}

\* payloads handed to Page.Write
Payloads == {<<100>>, <<101, 102>>}

\* longest Released list of a Freelist handed to Equal
MaxEqLen == 3

\* the Freelists handed to Equal on a Freelist whose Max is m: the same Max
\* or the next, and every list of up to MaxEqLen of two page numbers
EqualArgs(m) ==
  {[Max |-> x, Released |-> r] :
     x \in {m, m + 1}, r \in UNION {[1..n -> {3, 258}] : n \in 0..MaxEqLen}}

\* calls of Next each caller of the shared Freelist makes
MaxCalls == 2

\* buffer length of the stand-alone Page
PageLen == 3

\* byte sequences handed to Write on the stand-alone Page: empty, shorter
\* than the buffer, of its length, and longer
PageArgs == {<<>>, <<7>>, <<8, 9>>, <<1, 2, 3>>, <<4, 5, 6, 7, 8>>}

(***************************************************************************)
(* encoding/binary.LittleEndian                                            *)
(***************************************************************************)
RECURSIVE Pow256(_)
Pow256(i) == IF i = 0 THEN 1 ELSE 256 * Pow256(i - 1)

\* byte i (0-based) of the 64-bit pattern of a non-negative n below 2^31
ByteOf(n, i) == IF i < 4 THEN (n \div Pow256(i)) % 256 ELSE 0

\* PutUint64(b, uint64(v)) for an int64 v: two's complement, low byte first
PutUint64(v) ==
  [i \in 1..8 |-> IF v >= 0 THEN ByteOf(v, i - 1) ELSE 255 - ByteOf(-v - 1, i - 1)]

\* PutUint32(b, uint32(n))
PutUint32(n) == [i \in 1..4 |-> ByteOf(n, i - 1)]

RECURSIVE LESum(_, _)
LESum(b, i) == IF i > Len(b) THEN 0 ELSE b[i] + 256 * LESum(b, i + 1)

\* PageNum(Uint64(b)): the int64 whose two's complement pattern is b
Uint64(b) ==
  IF b[8] >= 128
  THEN -LESum([i \in 1..8 |-> 255 - b[i]], 1) - 1
  ELSE LESum(b, 1)

\* Uint32(b)
Uint32(b) == LESum(b, 1)

\* make([]byte, n)
Zeros(n) == [i \in 1..n |-> 0]

\* the builtin copy(dst, src): min(len(dst), len(src)) bytes, rest of dst kept
Copy(dst, src) ==
  IF Len(src) >= Len(dst)
  THEN SubSeq(src, 1, Len(dst))
  ELSE src \o SubSeq(dst, Len(src) + 1, Len(dst))

(***************************************************************************)
(* Metainfo                                                                *)
(***************************************************************************)
\* faulty variant of Metainfo.Serialize: the record is encoded in 32 bits
MetainfoSerializeShort(m) == SubSeq(PutUint64(m.Freelist), 1, 4)

\* faulty variant of Metainfo.Deserialize: a record of exactly 8 bytes is rejected
MetainfoDeserializeOffByOne(m, b) ==
  IF Len(b) <= 8
  THEN [err |-> "ErrWrongBytes", meta |-> m]
  ELSE [err |-> "nil", meta |-> [Freelist |-> Uint64(SubSeq(b, 1, 8))]]

NewMetainfo == [Freelist |-> DefaultFlistPage]

\* new(data.Metainfo)
ZeroMetainfo == [Freelist |-> 0]

MetainfoSerialize(m) == PutUint64(m.Freelist)

\* the receiver after the call, and the error returned
MetainfoDeserialize(m, b) ==
  IF Len(b) < 8
  THEN [err |-> "ErrWrongBytes", meta |-> m]
  ELSE [err |-> "nil", meta |-> [Freelist |-> Uint64(SubSeq(b, 1, 8))]]

MetainfoEqual(m, other) == m.Freelist = other.Freelist

(***************************************************************************)
(* Freelist                                                                *)
(***************************************************************************)
\* faulty variant of NewFreelist: allocation starts at the Freelist's own page
NewFreelistAtFlistPage == [Max |-> DefaultFlistPage, Released |-> <<>>]

\* faulty variant of Freelist.Next: the oldest released entry is reused first
FreelistNextFIFO(fl) ==
  IF Len(fl.Released) = 0
  THEN [num |-> fl.Max, fl |-> [fl EXCEPT !.Max = fl.Max + 1]]
  ELSE [num |-> fl.Released[1],
        fl |-> [fl EXCEPT !.Released = SubSeq(fl.Released, 2, Len(fl.Released))]]

\* faulty variant of Freelist.Next: Max is incremented before it is returned
FreelistNextPreIncrement(fl) ==
  IF Len(fl.Released) = 0
  THEN [num |-> fl.Max + 1, fl |-> [fl EXCEPT !.Max = fl.Max + 1]]
  ELSE [num |-> fl.Released[Len(fl.Released)],
        fl |-> [fl EXCEPT !.Released = SubSeq(fl.Released, 1, Len(fl.Released) - 1)]]

\* faulty variant of Freelist.Next: growth returns Max and leaves it alone
FreelistNextNoGrow(fl) ==
  IF Len(fl.Released) = 0
  THEN [num |-> fl.Max, fl |-> fl]
  ELSE [num |-> fl.Released[Len(fl.Released)],
        fl |-> [fl EXCEPT !.Released = SubSeq(fl.Released, 1, Len(fl.Released) - 1)]]

\* faulty variant of Freelist.Release: the boundary page itself is accepted
FreelistReleaseStrict(fl, num) ==
  IF num < BeginFreeBlocks
  THEN fl
  ELSE [fl EXCEPT !.Released = Append(fl.Released, num)]

\* faulty variant of Freelist.Serialize: Max is left out of the record
FreelistSerializeNoMax(fl) ==
  Zeros(8) \o PutUint32(Len(fl.Released))
    \o [i \in 1..(8 * Len(fl.Released)) |->
          PutUint64(fl.Released[((i - 1) \div 8) + 1])[((i - 1) % 8) + 1]]

NewFreelist == [Max |-> BeginFreeBlocks, Released |-> <<>>]

\* new(data.Freelist)
ZeroFreelist == [Max |-> 0, Released |-> <<>>]

\* the page number returned, and the receiver after the call
FreelistNext(fl) ==
  IF Len(fl.Released) = 0
  THEN [num |-> fl.Max, fl |-> [fl EXCEPT !.Max = fl.Max + 1]]
  ELSE [num |-> fl.Released[Len(fl.Released)],
        fl |-> [fl EXCEPT !.Released = SubSeq(fl.Released, 1, Len(fl.Released) - 1)]]

FreelistRelease(fl, num) ==
  IF num <= BeginFreeBlocks
  THEN fl
  ELSE [fl EXCEPT !.Released = Append(fl.Released, num)]

RECURSIVE PutReleased(_, _)
PutReleased(rel, i) ==
  IF i > Len(rel) THEN <<>> ELSE PutUint64(rel[i]) \o PutReleased(rel, i + 1)

\* faulty variant of Freelist.Serialize: the entries are written last first
FreelistSerializeReversed(fl) ==
  PutUint64(fl.Max) \o PutUint32(Len(fl.Released))
    \o PutReleased([i \in 1..Len(fl.Released) |->
                      fl.Released[Len(fl.Released) + 1 - i]], 1)

FreelistSerialize(fl) ==
  PutUint64(fl.Max) \o PutUint32(Len(fl.Released)) \o PutReleased(fl.Released, 1)

\* the receiver after the call, and the error returned; Max and Released are
\* assigned before the body length is checked
FreelistDeserialize(fl, b) ==
  IF Len(b) < 8 + 4
  THEN [err |-> "ErrWrongBytes", fl |-> fl]
  ELSE LET mx == Uint64(SubSeq(b, 1, 8))
           cnt == Uint32(SubSeq(b, 9, 12))
       IN IF Len(b) < (8 + 4) + (8 * cnt)
          THEN [err |-> "ErrWrongBytes",
                fl |-> [Max |-> mx, Released |-> [i \in 1..cnt |-> 0]]]
          ELSE [err |-> "nil",
                fl |-> [Max |-> mx,
                        Released |-> [i \in 1..cnt |->
                           Uint64(SubSeq(b, 12 + (8 * (i - 1)) + 1, 12 + (8 * (i - 1)) + 8))]]]

FreelistEqual(fl, other) ==
  /\ fl.Max = other.Max
  /\ Len(fl.Released) = Len(other.Released)
  /\ \A i \in 1..Len(fl.Released) :
        \E j \in 1..Len(other.Released) : fl.Released[i] = other.Released[j]

(***************************************************************************)
(* Page                                                                    *)
(***************************************************************************)
NewPage(n, size) == [Num |-> n, Data |-> Zeros(size)]

\* the Page returned: the number given, the buffer of the receiver
WithNum(p, n) == [Num |-> n, Data |-> p.Data]

\* faulty variant of Page.Write: the bytes beyond the input are zeroed
PageWriteRezero(p, b) == [p EXCEPT !.Data = Copy(Zeros(Len(p.Data)), b)]

\* Page.Write
PageWrite(p, b) == [p EXCEPT !.Data = Copy(p.Data, b)]

(***************************************************************************)
(* os.File: positioned reads and writes on the bytes of the file           *)
(***************************************************************************)
\* f.WriteAt(data, off) writing all of data: the file grows as needed and
\* a gap is filled with zero bytes
WriteAt(f, data, off) ==
  IF off < 0 THEN [err |-> "IOError", file |-> f]
  ELSE IF Len(data) = 0 THEN [err |-> "nil", file |-> f]
  ELSE [err |-> "nil",
        file |-> IF off >= Len(f)
                 THEN f \o Zeros(off - Len(f)) \o data
                 ELSE SubSeq(f, 1, off) \o data \o SubSeq(f, off + Len(data) + 1, Len(f))]

\* f.WriteAt(data, off) failing after torn bytes reached the file
WriteAtFailing(f, data, off, torn) ==
  [err |-> "IOError",
   file |-> IF off < 0 THEN f
            ELSE WriteAt(f, SubSeq(data, 1, IF torn < Len(data) THEN torn ELSE Len(data)),
                         off).file]

\* f.ReadAt(b, off) with len(b) = n: an error unless all n bytes are there
ReadAt(f, n, off) ==
  IF off < 0 \/ (n > 0 /\ off + n > Len(f))
  THEN [err |-> "IOError", data |-> <<>>]
  ELSE [err |-> "nil", data |-> SubSeq(f, off + 1, off + n)]

(***************************************************************************)
(* Pager                                                                   *)
(***************************************************************************)
PagerAlloc == NewPage(0, PageSize)

\* faulty variant of Pager.Write: the page number is used as the byte offset
PagerWriteUnscaled(f, p, torn) ==
  IF torn < 0 THEN WriteAt(f, p.Data, p.Num)
  ELSE WriteAtFailing(f, p.Data, p.Num, torn)

\* Pager.Write(pg) on file f; torn is -1 when the write succeeds
PagerWrite(f, p, torn) ==
  IF torn < 0
  THEN WriteAt(f, p.Data, p.Num * PageSize)
  ELSE WriteAtFailing(f, p.Data, p.Num * PageSize, torn)

\* Pager.Read(num) on file f
PagerRead(f, n) ==
  LET r == ReadAt(f, PageSize, n * PageSize)
  IN IF r.err # "nil"
     THEN [err |-> r.err, pg |-> [Num |-> n, Data |-> <<>>]]
     ELSE [err |-> "nil", pg |-> [Num |-> n, Data |-> r.data]]

\* faulty variant of Pager.Flush: the Freelist record is written to the first data page
PagerFlushFlistAtBoundary(f, m, fl, fail, torn) ==
  LET metapg == WithNum(PagerAlloc, DefaultMetaPage)
      metaw == PagerWrite(f, [metapg EXCEPT !.Data = Copy(metapg.Data, MetainfoSerialize(m))],
                          IF fail = "meta" THEN torn ELSE -1)
      flistpg == WithNum(PagerAlloc, BeginFreeBlocks)
      flistw == PagerWrite(metaw.file,
                           [flistpg EXCEPT !.Data = Copy(flistpg.Data, FreelistSerialize(fl))],
                           IF fail = "flist" THEN torn ELSE -1)
  IN IF metaw.err # "nil"
     THEN [err |-> "flush metainfo: " \o metaw.err, file |-> metaw.file]
     ELSE IF flistw.err # "nil"
          THEN [err |-> "flush freelist: " \o flistw.err, file |-> flistw.file]
          ELSE [err |-> "nil", file |-> flistw.file]

\* faulty variant of Pager.Flush: only the Metainfo page is written
PagerFlushMetaOnly(f, m, fl, fail, torn) ==
  LET metapg == WithNum(PagerAlloc, DefaultMetaPage)
      metaw == PagerWrite(f, [metapg EXCEPT !.Data = Copy(metapg.Data, MetainfoSerialize(m))],
                          IF fail = "meta" THEN torn ELSE -1)
  IN IF metaw.err # "nil"
     THEN [err |-> "flush metainfo: " \o metaw.err, file |-> metaw.file]
     ELSE [err |-> "nil", file |-> metaw.file]

\* faulty variant of PagerFlush: the freelist page is written even after the
\* metainfo write failed
PagerFlushNoEarlyReturn(f, m, fl, fail, torn) ==
  LET metapg == WithNum(PagerAlloc, DefaultMetaPage)
      metaw == PagerWrite(f, [metapg EXCEPT !.Data = Copy(metapg.Data, MetainfoSerialize(m))],
                          IF fail = "meta" THEN torn ELSE -1)
      flistpg == WithNum(PagerAlloc, m.Freelist)
      flistw == PagerWrite(metaw.file, [flistpg EXCEPT !.Data = Copy(flistpg.Data, FreelistSerialize(fl))],
                           IF fail = "flist" THEN torn ELSE -1)
  IN IF metaw.err # "nil" THEN [err |-> "flush metainfo: " \o metaw.err, file |-> flistw.file]
     ELSE IF flistw.err # "nil" THEN [err |-> "flush freelist: " \o flistw.err, file |-> flistw.file]
          ELSE [err |-> "nil", file |-> flistw.file]

\* Pager.Flush of Metainfo m and Freelist fl on file f; fail names the write
\* that fails ("none", "meta", "flist") and torn the bytes it leaves
PagerFlush(f, m, fl, fail, torn) ==
  LET metapg == WithNum(PagerAlloc, DefaultMetaPage)
      metaw == PagerWrite(f, [metapg EXCEPT !.Data = Copy(metapg.Data, MetainfoSerialize(m))],
                          IF fail = "meta" THEN torn ELSE -1)
      flistpg == WithNum(PagerAlloc, m.Freelist)
      flistw == PagerWrite(metaw.file,
                           [flistpg EXCEPT !.Data = Copy(flistpg.Data, FreelistSerialize(fl))],
                           IF fail = "flist" THEN torn ELSE -1)
  IN IF metaw.err # "nil"
     THEN [err |-> "flush metainfo: " \o metaw.err, file |-> metaw.file]
     ELSE IF flistw.err # "nil"
          THEN [err |-> "flush freelist: " \o flistw.err, file |-> flistw.file]
          ELSE [err |-> "nil", file |-> flistw.file]

\* Pager.Recovery into Metainfo m and Freelist fl from file f: the error, and
\* the two structures as the call leaves them
PagerRecovery(f, m, fl) ==
  LET metapg == PagerRead(f, DefaultMetaPage)
      md == MetainfoDeserialize(m, metapg.pg.Data)
      flistpg == PagerRead(f, md.meta.Freelist)
      fd == FreelistDeserialize(fl, flistpg.pg.Data)
  IN IF metapg.err # "nil"
     THEN [err |-> "recover metainfo: " \o metapg.err, meta |-> m, flist |-> fl]
     ELSE IF md.err # "nil"
          THEN [err |-> "recover metainfo: " \o md.err, meta |-> md.meta, flist |-> fl]
          ELSE IF flistpg.err # "nil"
               THEN [err |-> "recover freelist: " \o flistpg.err, meta |-> md.meta, flist |-> fl]
               ELSE IF fd.err # "nil"
                    THEN [err |-> "recover freelist: " \o fd.err, meta |-> md.meta, flist |-> fd.fl]
                    ELSE [err |-> "nil", meta |-> md.meta, flist |-> fd.fl]

(***************************************************************************)
(* State                                                                   *)
(***************************************************************************)
VARIABLES
  unit,     \* which object the stand-alone specification drives
  op,       \* the last operation performed
  err,      \* the error it returned ("nil" for none)
  flist,    \* a stand-alone Freelist, made by NewFreelist
  pre,      \* that Freelist as it was before the last Next or Release
  trace,    \* the Next and Release calls made on it, with argument or result,
            \* until it is serialized
  buf,      \* the bytes last returned by Serialize
  din,      \* the bytes last handed to Deserialize
  drecv,    \* the Freelist receiver of that Deserialize, before the call
  dec,      \* the same receiver after the call
  meta,     \* a stand-alone Metainfo
  mrecv,    \* the Metainfo receiver of the last Deserialize, before the call
  mdec,     \* the same receiver after the call
  exists,   \* whether the store file exists on the path
  file,     \* the bytes of the store file
  pgr,      \* the Pager: the state of its file handle, whether the caller
            \* holds it, its Metainfo and its Freelist
  pg,       \* the Page the caller holds
  written,  \* page number -> buffer of the last successful Pager.Write to it
  flushed,  \* Metainfo and Freelist at the last successful Flush
  other,    \* the Freelist last handed to flist.Equal
  eq,       \* what that Equal returned
  atomic,   \* whether every call on the shared Freelist runs as one step
  callers   \* per caller of the shared Freelist: the statement of Next it
            \* is at, its local variable, its calls so far and the pages
            \* it was returned and has not released

unitVars == <<flist, pre, trace, buf, din, drecv, dec, meta, mrecv, mdec>>

pagerVars == <<exists, file, pgr, pg, written, flushed>>

cmpVars == <<other, eq>>

raceVars == <<atomic, callers>>

vars == <<unit, op, err, unitVars, pagerVars, cmpVars, raceVars>>

\* the goroutines that share one Freelist
Callers == {1, 2}

IdleCaller == [pc |-> "idle", num |-> -1, calls |-> 0, out |-> <<>>]

NoPager == [f |-> "none", held |-> FALSE, meta |-> NewMetainfo, flist |-> NewFreelist]

NoPage == [Num |-> -1, Data |-> <<>>]

NoFlush == [ok |-> FALSE, meta |-> NewMetainfo, flist |-> NewFreelist]

InitCommon ==
  /\ op = "init"
  /\ err = "nil"
  /\ flist = NewFreelist
  /\ pre = NewFreelist
  /\ trace = <<>>
  /\ buf = <<>>
  /\ din = <<>>
  /\ drecv = ZeroFreelist
  /\ dec = ZeroFreelist
  /\ meta = NewMetainfo
  /\ mrecv = ZeroMetainfo
  /\ mdec = ZeroMetainfo
  /\ exists = FALSE
  /\ file = <<>>
  /\ pgr = NoPager
  /\ pg = NoPage
  /\ written = <<>>
  /\ flushed = NoFlush
  /\ other = ZeroFreelist
  /\ eq = FALSE
  /\ callers = [p \in Callers |-> IdleCaller]

(***************************************************************************)
(* The stand-alone Freelist and Metainfo, driven as the package's tests    *)
(* drive them (src/data/data_test.go:77-124).                              *)
(***************************************************************************)
ResetCodec ==
  /\ buf' = <<>>
  /\ din' = <<>>
  /\ drecv' = ZeroFreelist
  /\ dec' = ZeroFreelist

\* flist.Next()
Next ==
  /\ unit = "freelist"
  /\ op \in {"init", "Next", "Release"}
  /\ Len(trace) < MaxOps
  /\ LET r == FreelistNext(flist)
     IN /\ flist' = r.fl
        /\ trace' = Append(trace, [op |-> "Next", v |-> r.num])
  /\ pre' = flist
  /\ op' = "Next"
  /\ err' = "nil"
  /\ ResetCodec
  /\ UNCHANGED <<unit, cmpVars, raceVars, meta, mrecv, mdec, pagerVars>>

\* flist.Release(n)
Release(n) ==
  /\ unit = "freelist"
  /\ op \in {"init", "Next", "Release"}
  /\ Len(trace) < MaxOps
  /\ flist' = FreelistRelease(flist, n)
  /\ trace' = Append(trace, [op |-> "Release", v |-> n])
  /\ pre' = flist
  /\ op' = "Release"
  /\ err' = "nil"
  /\ ResetCodec
  /\ UNCHANGED <<unit, cmpVars, raceVars, meta, mrecv, mdec, pagerVars>>

\* b := flist.Serialize()
Serialize ==
  /\ unit = "freelist"
  /\ buf' = FreelistSerialize(flist)
  /\ op' = "Serialize"
  /\ err' = "nil"
  /\ din' = <<>>
  /\ drecv' = ZeroFreelist
  /\ dec' = ZeroFreelist
  \* the history of calls and the last comparison are not carried into
  \* the serialization cases
  /\ trace' = <<>>
  /\ pre' = flist
  /\ other' = ZeroFreelist
  /\ eq' = FALSE
  /\ UNCHANGED <<unit, raceVars, flist, meta, mrecv, mdec, pagerVars>>

\* recv.Deserialize(b[:k] followed by pad zero bytes), recv an empty or a
\* default Freelist
Deserialize(recv, k, pad) ==
  /\ unit = "freelist"
  /\ op = "Serialize"
  /\ LET b == SubSeq(buf, 1, k) \o Zeros(pad)
         r == FreelistDeserialize(recv, b)
     IN /\ din' = b
        /\ dec' = r.fl
        /\ err' = r.err
  /\ drecv' = recv
  /\ op' = "Deserialize"
  /\ UNCHANGED <<unit, cmpVars, raceVars, flist, pre, trace, buf, meta, mrecv, mdec, pagerVars>>

\* meta.Freelist = n
MetaSet(n) ==
  /\ unit = "metainfo"
  /\ meta' = [meta EXCEPT !.Freelist = n]
  /\ op' = "MetaSet"
  /\ err' = "nil"
  /\ buf' = <<>>
  /\ din' = <<>>
  /\ mrecv' = ZeroMetainfo
  /\ mdec' = ZeroMetainfo
  /\ UNCHANGED <<unit, cmpVars, raceVars, flist, pre, trace, drecv, dec, pagerVars>>

\* b := meta.Serialize()
MetaSerialize ==
  /\ unit = "metainfo"
  /\ buf' = MetainfoSerialize(meta)
  /\ op' = "MetaSerialize"
  /\ err' = "nil"
  /\ din' = <<>>
  /\ mrecv' = ZeroMetainfo
  /\ mdec' = ZeroMetainfo
  /\ UNCHANGED <<unit, cmpVars, raceVars, flist, pre, trace, drecv, dec, meta, pagerVars>>

\* recv.Deserialize(b[:k] followed by pad zero bytes), recv an empty or a
\* default Metainfo; the decoded value stays in the range of the model's integers
MetaDeserialize(recv, k, pad) ==
  /\ unit = "metainfo"
  /\ op = "MetaSerialize"
  \* a negative number cut short and padded decodes to a value above 2^31
  /\ k = Len(buf) \/ pad = 0 \/ meta.Freelist >= 0
  /\ LET b == SubSeq(buf, 1, k) \o Zeros(pad)
         r == MetainfoDeserialize(recv, b)
     IN /\ din' = b
        /\ mdec' = r.meta
        /\ err' = r.err
  /\ mrecv' = recv
  /\ op' = "MetaDeserialize"
  /\ UNCHANGED <<unit, cmpVars, raceVars, flist, pre, trace, buf, drecv, dec, meta, pagerVars>>

\* pg := data.NewPage(0, PageLen)
PageNew ==
  /\ unit = "page"
  /\ pg = NoPage
  /\ pg' = NewPage(0, PageLen)
  /\ op' = "NewPage"
  /\ err' = "nil"
  /\ UNCHANGED <<unit, cmpVars, raceVars, unitVars, exists, file, pgr, written, flushed>>

\* pg.Write(b)
PageFill(b) ==
  /\ unit = "page"
  /\ pg # NoPage
  /\ pg' = PageWrite(pg, b)
  /\ din' = b
  /\ op' = "PageWrite"
  /\ err' = "nil"
  /\ UNCHANGED <<unit, cmpVars, raceVars, flist, pre, trace, buf, drecv, dec, meta, mrecv, mdec,
                 exists, file, pgr, written, flushed>>

\* eq := flist.Equal(o)
Equal(o) ==
  /\ unit = "freelist"
  /\ op \in {"init", "Next", "Release"}
  /\ other' = o
  /\ eq' = FreelistEqual(flist, o)
  /\ trace' = <<>>
  /\ pre' = flist
  /\ op' = "Equal"
  /\ err' = "nil"
  /\ ResetCodec
  /\ UNCHANGED <<unit, raceVars, flist, meta, mrecv, mdec, pagerVars>>

InitUnit ==
  /\ unit \in {"freelist", "metainfo", "page"}
  /\ atomic = TRUE
  /\ InitCommon

NextUnit ==
  \/ Next
  \/ \E n \in RelArgs : Release(n)
  \/ Serialize
  \/ \E recv \in {ZeroFreelist, NewFreelist}, k \in 0..Len(buf), pad \in {0, PadLen} :
        Deserialize(recv, k, pad)
  \/ \E n \in MetaArgs : MetaSet(n)
  \/ MetaSerialize
  \/ \E recv \in {ZeroMetainfo, NewMetainfo}, k \in 0..Len(buf), pad \in {0, PadLen} :
        MetaDeserialize(recv, k, pad)
  \/ PageNew
  \/ \E b \in PageArgs : PageFill(b)
  \/ \E o \in EqualArgs(flist.Max) : Equal(o)

SpecUnit == InitUnit /\ [][NextUnit]_vars

(***************************************************************************)
(* One Freelist shared by two callers with no lock around their calls.     *)
(* When atomic is FALSE a call of Next runs statement by statement         *)
(* (src/data/data.go:236-247), the statements of the two callers           *)
(* interleaving; when it is TRUE, every call is one step.  A caller        *)
(* releases only pages it was returned and has not released.               *)
(***************************************************************************)
raceFrame == <<unit, err, pre, trace, buf, din, drecv, dec, meta, mrecv, mdec,
               pagerVars, cmpVars, atomic>>

\* q without its i-th element
Remove(q, i) == SubSeq(q, 1, i - 1) \o SubSeq(q, i + 1, Len(q))

\* flist.Next() as one step
NextAtomic(p) ==
  /\ unit = "race"
  /\ atomic
  /\ callers[p].pc = "idle"
  /\ callers[p].calls < MaxCalls
  /\ \E r \in {FreelistNext(flist)} :
        /\ flist' = r.fl
        /\ callers' = [callers EXCEPT ![p].num = r.num,
                                      ![p].calls = @ + 1,
                                      ![p].out = Append(@, r.num)]
  /\ op' = "Next"
  /\ UNCHANGED raceFrame

\* if len(flist.Released) == 0
NextIfEmpty(p) ==
  /\ unit = "race"
  /\ ~atomic
  /\ callers[p].pc = "idle"
  /\ callers[p].calls < MaxCalls
  /\ callers' = [callers EXCEPT ![p].pc = IF Len(flist.Released) = 0
                                          THEN "grow" ELSE "reuse",
                                ![p].calls = @ + 1]
  /\ op' = "Next/if"
  /\ UNCHANGED <<raceFrame, flist>>

\* curr := flist.Max
NextReadMax(p) ==
  /\ unit = "race"
  /\ callers[p].pc = "grow"
  /\ callers' = [callers EXCEPT ![p].pc = "inc", ![p].num = flist.Max]
  /\ op' = "Next/curr"
  /\ UNCHANGED <<raceFrame, flist>>

\* flist.Max += 1; return curr.  The unsynchronised increment stores one
\* more than Max as it is now, or one more than the value loaded for curr
NextIncMax(p) ==
  /\ unit = "race"
  /\ callers[p].pc = "inc"
  /\ \E m \in {flist.Max + 1, callers[p].num + 1} :
        flist' = [flist EXCEPT !.Max = m]
  /\ callers' = [callers EXCEPT ![p].pc = "idle",
                                ![p].out = Append(@, callers[p].num)]
  /\ op' = "Next/inc"
  /\ UNCHANGED raceFrame

\* num := flist.Released[len(flist.Released)-1]: the index is out of range
\* when the other caller emptied the list in between
NextReadLast(p) ==
  /\ unit = "race"
  /\ callers[p].pc = "reuse"
  /\ callers' = IF Len(flist.Released) = 0
                THEN [callers EXCEPT ![p].pc = "panic"]
                ELSE [callers EXCEPT ![p].pc = "pop",
                                     ![p].num = flist.Released[Len(flist.Released)]]
  /\ op' = "Next/num"
  /\ UNCHANGED <<raceFrame, flist>>

\* flist.Released = flist.Released[:len(flist.Released)-1]; return num
NextPop(p) ==
  /\ unit = "race"
  /\ callers[p].pc = "pop"
  /\ IF Len(flist.Released) = 0
     THEN /\ callers' = [callers EXCEPT ![p].pc = "panic"]
          /\ flist' = flist
     ELSE /\ callers' = [callers EXCEPT ![p].pc = "idle",
                                        ![p].out = Append(@, callers[p].num)]
          /\ flist' = [flist EXCEPT !.Released =
                         SubSeq(flist.Released, 1, Len(flist.Released) - 1)]
  /\ op' = "Next/pop"
  /\ UNCHANGED raceFrame

\* flist.Release(n), n the i-th page the caller holds
ReleaseHeld(p, i) ==
  /\ unit = "race"
  /\ callers[p].pc = "idle"
  /\ i <= Len(callers[p].out)
  /\ flist' = FreelistRelease(flist, callers[p].out[i])
  /\ callers' = [callers EXCEPT ![p].out = Remove(@, i)]
  /\ op' = "Release"
  /\ UNCHANGED raceFrame

InitRace ==
  /\ unit = "race"
  /\ atomic \in BOOLEAN
  /\ InitCommon

NextRace ==
  \E p \in Callers :
     \/ NextAtomic(p)
     \/ NextIfEmpty(p)
     \/ NextReadMax(p)
     \/ NextIncMax(p)
     \/ NextReadLast(p)
     \/ NextPop(p)
     \/ \E i \in 1..MaxCalls : ReleaseHeld(p, i)

SpecRace == InitRace /\ [][NextRace]_vars

(***************************************************************************)
(* The Pager on one path, driven as TestPager drives it                    *)
(* (src/data/data_test.go:14-75): open, allocate, fill, write, flush,      *)
(* close, open again.                                                      *)
(***************************************************************************)
IsOpen == pgr.held /\ pgr.f = "open"

\* faulty variant of NewPager: the handle stays open when Recovery or the
\* initial Flush fails
NewPagerLeaky(fail, torn) ==
  /\ unit = "pager"
  /\ pgr.f # "open"
  /\ IF exists
     THEN /\ fail = "none" /\ torn = 0
          /\ \E r \in {PagerRecovery(file, NewMetainfo, NewFreelist)} :
                /\ err' = r.err
                /\ pgr' = [f |-> "open", held |-> r.err = "nil",
                           meta |-> r.meta, flist |-> r.flist]
          /\ op' = "NewPager/recover"
          /\ UNCHANGED <<exists, file, flushed>>
     ELSE /\ fail = "none" => torn = 0
          /\ \E r \in {PagerFlush(<<>>, NewMetainfo, NewFreelist, fail, torn)} :
                /\ err' = r.err
                /\ file' = r.file
                /\ pgr' = [f |-> "open", held |-> r.err = "nil",
                           meta |-> NewMetainfo, flist |-> NewFreelist]
                /\ flushed' = [ok |-> r.err = "nil", meta |-> NewMetainfo, flist |-> NewFreelist]
          /\ exists' = TRUE
          /\ op' = "NewPager/create"
  /\ pg' = NoPage
  /\ UNCHANGED <<unit, cmpVars, raceVars, unitVars, written>>

\* NewPager(path, PageSize), while no Pager is open on the path
NewPager(fail, torn) ==
  /\ unit = "pager"
  /\ pgr.f # "open"
  /\ IF exists
     THEN /\ fail = "none" /\ torn = 0
          /\ \E r \in {PagerRecovery(file, NewMetainfo, NewFreelist)} :
                /\ err' = r.err
                /\ pgr' = [f |-> IF r.err = "nil" THEN "open" ELSE "closed",
                           held |-> r.err = "nil",
                           meta |-> r.meta, flist |-> r.flist]
          /\ op' = "NewPager/recover"
          /\ UNCHANGED <<exists, file, flushed>>
     ELSE /\ fail = "none" => torn = 0
          /\ \E r \in {PagerFlush(<<>>, NewMetainfo, NewFreelist, fail, torn)} :
                /\ err' = r.err
                /\ file' = r.file
                /\ pgr' = [f |-> IF r.err = "nil" THEN "open" ELSE "closed",
                           held |-> r.err = "nil",
                           meta |-> NewMetainfo, flist |-> NewFreelist]
                /\ flushed' = [ok |-> r.err = "nil", meta |-> NewMetainfo, flist |-> NewFreelist]
          /\ exists' = TRUE
          /\ op' = "NewPager/create"
  /\ pg' = NoPage
  /\ UNCHANGED <<unit, cmpVars, raceVars, unitVars, written>>

\* pg := pgr.Alloc().WithNum(pgr.Freelist().Next())
AllocNext ==
  /\ unit = "pager"
  /\ IsOpen
  /\ Len(pgr.flist.Released) > 0 \/ pgr.flist.Max < MaxGrow
  /\ \E r \in {FreelistNext(pgr.flist)} :
        /\ pgr' = [pgr EXCEPT !.flist = r.fl]
        /\ pg' = WithNum(PagerAlloc, r.num)
  /\ op' = "AllocNext"
  /\ err' = "nil"
  /\ UNCHANGED <<unit, cmpVars, raceVars, unitVars, exists, file, written, flushed>>

\* pg := pgr.Alloc().WithNum(n); pg.Write(b), n chosen by the caller
AllocAt(n, b) ==
  /\ unit = "pager"
  /\ IsOpen
  /\ pg' = PageWrite(WithNum(PagerAlloc, n), b)
  /\ op' = "AllocAt"
  /\ err' = "nil"
  /\ UNCHANGED <<unit, cmpVars, raceVars, unitVars, exists, file, pgr, written, flushed>>

\* pg.Write(b) on the page just allocated
Fill(b) ==
  /\ unit = "pager"
  /\ pg # NoPage
  /\ pg.Data = Zeros(PageSize)
  /\ pg' = PageWrite(pg, b)
  /\ op' = "Fill"
  /\ err' = "nil"
  /\ UNCHANGED <<unit, cmpVars, raceVars, unitVars, exists, file, pgr, written, flushed>>

\* pgr.Write(pg), the write succeeding
Write ==
  /\ unit = "pager"
  /\ IsOpen
  /\ pg # NoPage
  /\ \E r \in {PagerWrite(file, pg, -1)} :
        /\ err' = r.err
        /\ file' = r.file
        /\ written' = IF r.err = "nil"
                      THEN [n \in DOMAIN written \cup {pg.Num} |->
                              IF n = pg.Num THEN pg.Data ELSE written[n]]
                      ELSE written
  /\ pg' = NoPage
  /\ op' = "Write"
  /\ UNCHANGED <<unit, cmpVars, raceVars, unitVars, exists, pgr, flushed>>

\* pgr.Freelist().Release(n)
ReleasePage(n) ==
  /\ unit = "pager"
  /\ IsOpen
  /\ Len(pgr.flist.Released) < MaxReleased
  /\ pgr' = [pgr EXCEPT !.flist = FreelistRelease(pgr.flist, n)]
  /\ op' = "Release"
  /\ err' = "nil"
  /\ UNCHANGED <<unit, cmpVars, raceVars, unitVars, exists, file, pg, written, flushed>>

\* pgr.Flush(), every write succeeding or one of the two failing
Flush(fail, torn) ==
  /\ unit = "pager"
  /\ IsOpen
  /\ fail = "none" => torn = 0
  /\ \E r \in {PagerFlush(file, pgr.meta, pgr.flist, fail, torn)} :
        /\ err' = r.err
        /\ file' = r.file
        /\ flushed' = IF r.err = "nil"
                      THEN [ok |-> TRUE, meta |-> pgr.meta, flist |-> pgr.flist]
                      ELSE [flushed EXCEPT !.ok = FALSE]
  /\ op' = "Flush"
  /\ UNCHANGED <<unit, cmpVars, raceVars, unitVars, exists, pgr, pg, written>>

\* pgr.Close()
Close ==
  /\ unit = "pager"
  /\ IsOpen
  /\ pgr' = [pgr EXCEPT !.f = "closed"]
  /\ pg' = NoPage
  /\ op' = "Close"
  /\ err' = "nil"
  /\ UNCHANGED <<unit, cmpVars, raceVars, unitVars, exists, file, written, flushed>>

Fails == {"none", "meta", "flist"}

Init ==
  /\ unit = "pager"
  /\ atomic = TRUE
  /\ InitCommon

NextData ==
  \/ \E fail \in Fails, torn \in TornLens : NewPager(fail, torn)
  \/ AllocNext
  \/ \E b \in Payloads : Fill(b)
  \/ Write
  \/ \E fail \in Fails, torn \in TornLens : Flush(fail, torn)
  \/ Close

NextPager ==
  \/ NextData
  \/ \E n \in PagerRelArgs : ReleasePage(n)

\* the Pager without Release: pages are only ever obtained from Next
SpecData == Init /\ [][NextData]_vars

Spec == Init /\ [][NextPager]_vars

\* page numbers handed to Release in the control-page specification
CtlRelArgs == {3, 4}

NextCtl ==
  \/ \E fail \in Fails, torn \in TornLens : NewPager(fail, torn)
  \/ AllocNext
  \/ \E n \in CtlRelArgs : ReleasePage(n)
  \/ \E fail \in Fails, torn \in TornLens : Flush(fail, torn)
  \/ Close

\* the process stops inside NewPager's creation path, the file created
\* (data.go:68), or inside Flush on an open Pager (data.go:132-152): before
\* the Metainfo write ("meta", 0 bytes), during it ("meta", some bytes),
\* between the two writes ("flist", 0 bytes), during the Freelist write
\* ("flist", some bytes) or after both ("none").  The file keeps what was
\* written; the Pager is gone, pgr keeps what it was flushing.
Crash(fail, torn) ==
  /\ unit = "pager"
  /\ fail = "none" => torn = 0
  /\ \/ /\ ~exists
        /\ pgr.f # "open"
        /\ exists' = TRUE
        /\ file' = PagerFlush(<<>>, NewMetainfo, NewFreelist, fail, torn).file
        /\ pgr' = [f |-> "closed", held |-> FALSE,
                   meta |-> NewMetainfo, flist |-> NewFreelist]
        /\ flushed' = [ok |-> fail = "none", meta |-> NewMetainfo, flist |-> NewFreelist]
     \/ /\ IsOpen
        /\ exists' = exists
        /\ file' = PagerFlush(file, pgr.meta, pgr.flist, fail, torn).file
        /\ pgr' = [pgr EXCEPT !.f = "closed", !.held = FALSE]
        /\ flushed' = IF fail = "none"
                      THEN [ok |-> TRUE, meta |-> pgr.meta, flist |-> pgr.flist]
                      ELSE flushed
  /\ pg' = NoPage
  /\ op' = "Crash"
  /\ err' = "nil"
  /\ UNCHANGED <<unit, cmpVars, raceVars, unitVars, written>>

NextCrash ==
  \/ \E fail \in Fails, torn \in TornLens : NewPager(fail, torn)
  \/ AllocNext
  \/ \E n \in PagerRelArgs : ReleasePage(n)
  \/ \E fail \in Fails, torn \in TornLens : Flush(fail, torn)
  \/ Close
  \/ \E fail \in Fails, torn \in TornLens : Crash(fail, torn)

\* the Pager's control pages, the process stopping at any point of a Flush
SpecCrash == Init /\ [][NextCrash]_vars

\* page numbers a caller hands to WithNum without asking the Freelist
WithNumArgs == {DefaultFlistPage}

\* what the caller writes into such a page
WithNumPayloads == {<<3>>}

NextAny ==
  \/ \E fail \in Fails, torn \in TornLens : NewPager(fail, torn)
  \/ AllocNext
  \/ \E n \in WithNumArgs, b \in WithNumPayloads : AllocAt(n, b)
  \/ Write
  \/ \E fail \in Fails, torn \in TornLens : Flush(fail, torn)
  \/ Close

\* the Pager without Release, pages numbered by Next or by the caller
SpecAny == Init /\ [][NextAny]_vars

\* the Pager's control pages only: no data page is written
SpecCtl == Init /\ [][NextCtl]_vars

(***************************************************************************)
(* Properties of the stand-alone Freelist and Metainfo (SpecUnit)          *)
(***************************************************************************)
Last(q) == q[Len(q)]

Front(q) == SubSeq(q, 1, Len(q) - 1)

SetOf(q) == {q[i] : i \in 1..Len(q)}

\* the entries pushed by the first i calls of t and not popped by them
RECURSIVE Pending(_, _)
Pending(t, i) ==
  IF i = 0 THEN <<>>
  ELSE LET p == Pending(t, i - 1)
       IN IF t[i].op = "Release"
          THEN IF t[i].v > BeginFreeBlocks THEN Append(p, t[i].v) ELSE p
          ELSE IF p = <<>> THEN p ELSE Front(p)

OnlyNext(t, i) == \A j \in 1..i : t[j].op = "Next"

\* C1: Next reuses before it grows, most recent release first: a Next made
\* while Released is non-empty returns the entry pushed by the most recent
\* Release not yet popped, removes exactly that entry and leaves Max alone;
\* on a fresh Freelist, Release(a), Release(b), Next, Next yields b then a.
C1_NextIsLIFO ==
  /\ \A i \in 1..Len(trace) :
        (trace[i].op = "Next" /\ Pending(trace, i - 1) # <<>>)
           => trace[i].v = Last(Pending(trace, i - 1))
  /\ (op = "Next" /\ Len(pre.Released) > 0)
        => /\ Last(trace).v = Last(pre.Released)
           /\ flist.Released = Front(pre.Released)
           /\ flist.Max = pre.Max
  /\ ( /\ Len(trace) = 4
       /\ trace[1].op = "Release" /\ trace[1].v > BeginFreeBlocks
       /\ trace[2].op = "Release" /\ trace[2].v > BeginFreeBlocks
       /\ trace[3].op = "Next" /\ trace[4].op = "Next" )
        => (trace[3].v = trace[2].v /\ trace[4].v = trace[1].v)

C1_Witness ==
  /\ Len(trace) = 4
  /\ trace[1] = [op |-> "Release", v |-> 3]
  /\ trace[2] = [op |-> "Release", v |-> 258]
  /\ trace[3] = [op |-> "Next", v |-> 258]
  /\ trace[4] = [op |-> "Next", v |-> 3]
  /\ flist = NewFreelist

\* C2 as stated: on a fresh Freelist with nothing released, the i-th of
\* consecutive Next calls returns BeginFreeBlocks + i, and a Next made while
\* Released is empty returns the new value of Max.
C2_Original ==
  /\ \A i \in 1..Len(trace) :
        OnlyNext(trace, i) => trace[i].v = BeginFreeBlocks + i
  /\ (op = "Next" /\ Len(pre.Released) = 0)
        => (flist.Max = pre.Max + 1 /\ Last(trace).v = flist.Max)

\* C2 amended: on a fresh Freelist with nothing released, N consecutive Next
\* calls return N consecutive integers starting at the reserved boundary
\* BeginFreeBlocks itself; a Next made while Released is empty returns the
\* value Max had before the call and leaves Max one higher.
C2_GrowthFromBoundary ==
  /\ \A i \in 1..Len(trace) :
        OnlyNext(trace, i) => trace[i].v = BeginFreeBlocks + (i - 1)
  /\ (op = "Next" /\ Len(pre.Released) = 0)
        => /\ flist.Max = pre.Max + 1
           /\ Last(trace).v = pre.Max
           /\ flist.Released = <<>>

C2_Witness ==
  /\ Len(trace) = 4
  /\ OnlyNext(trace, 4)
  /\ trace[1].v = 2 /\ trace[2].v = 3 /\ trace[3].v = 4 /\ trace[4].v = 5
  /\ flist.Max = 6

\* C3: the first page number a fresh Freelist hands out is page 2
\* (BeginFreeBlocks), and after any sequence of Next and Release calls Next
\* returns no page below 2: never page 0 and never page 1.
C3_AllocationStartsAtPage2 ==
  /\ BeginFreeBlocks = 2
  /\ (Len(trace) >= 1 /\ trace[1].op = "Next") => trace[1].v = 2
  /\ \A i \in 1..Len(trace) :
        trace[i].op = "Next" => (trace[i].v \notin {0, 1} /\ trace[i].v >= 2)

C3_Witness ==
  /\ Len(trace) = 4
  /\ trace[1] = [op |-> "Next", v |-> 2]
  /\ trace[2] = [op |-> "Release", v |-> -1]
  /\ trace[3] = [op |-> "Release", v |-> 2]
  /\ trace[4] = [op |-> "Next", v |-> 3]

\* C6: Release(n) with n at or below the reserved boundary leaves the
\* Freelist unchanged, and Released holds only page numbers strictly above
\* the boundary whatever was handed to Release.
C6_ReservedBoundary ==
  /\ (op = "Release" /\ Last(trace).v <= BeginFreeBlocks) => flist = pre
  /\ \A i \in 1..Len(flist.Released) : flist.Released[i] > BeginFreeBlocks
  /\ \A i \in 1..Len(trace) :
        (trace[i].op = "Next" /\ Pending(trace, i - 1) # <<>>)
           => trace[i].v > BeginFreeBlocks

C6_Witness ==
  /\ op = "Release"
  /\ Last(trace).v = BeginFreeBlocks
  /\ flist = pre
  /\ flist.Released = <<3>>

\* C7: Deserialize(Serialize(f)) into an empty Freelist succeeds and yields
\* a Freelist with the same Max and the same set of released page numbers
\* as f, and Equal returns true.
C7_FreelistRoundTrip ==
  (op = "Deserialize" /\ drecv = ZeroFreelist /\ din = buf)
     => /\ err = "nil"
        /\ dec.Max = flist.Max
        /\ SetOf(dec.Released) = SetOf(flist.Released)
        /\ FreelistEqual(flist, dec)

C7_Witness ==
  /\ op = "Deserialize" /\ drecv = ZeroFreelist /\ din = buf
  /\ flist = [Max |-> 3, Released |-> <<258, 16909060, 3>>]
  /\ dec = flist

\* C8: Metainfo.Serialize produces exactly 8 bytes, and Deserialize of those
\* bytes succeeds and yields a Metainfo equal to the serialized one.
C8_MetainfoRoundTrip ==
  /\ op = "MetaSerialize" => Len(buf) = 8
  /\ (op = "MetaDeserialize" /\ din = buf)
        => /\ Len(din) = 8
           /\ err = "nil"
           /\ mdec = meta
           /\ MetainfoEqual(meta, mdec)

C8_Witness ==
  /\ op = "MetaDeserialize" /\ din = buf
  /\ meta.Freelist = -2
  /\ mrecv = NewMetainfo
  /\ mdec = meta

\* the released-count a Freelist record declares in bytes 8..11
DeclaredCount(b) == b[9] + 256 * (b[10] + 256 * (b[11] + 256 * b[12]))

\* C9: Metainfo.Deserialize fails with ErrWrongBytes exactly when given fewer
\* than 8 bytes; Freelist.Deserialize fails with ErrWrongBytes exactly when
\* given fewer than 12 bytes or fewer than 12 + 8*count bytes for the count
\* its header declares; every longer input is decoded without error.
C9_ShortBuffersRejected ==
  /\ op = "MetaDeserialize"
        => /\ err \in {"nil", "ErrWrongBytes"}
           /\ err = "ErrWrongBytes" <=> Len(din) < 8
  /\ op = "Deserialize"
        => /\ err \in {"nil", "ErrWrongBytes"}
           /\ err = "ErrWrongBytes" <=>
                 (Len(din) < 12 \/ Len(din) < 12 + 8 * DeclaredCount(din))

C9_Witness ==
  /\ op = "Deserialize"
  /\ Len(din) >= 12
  /\ DeclaredCount(din) = 2
  /\ Len(din) = 12 + 8 * 2 - 1
  /\ err = "ErrWrongBytes"

(***************************************************************************)
(* Properties of the Pager (SpecData, Spec)                                *)
(***************************************************************************)
\* the buffers Alloc, Page.Write and Pager.Write put on disk: a payload, or
\* nothing, followed by zero padding up to the page size
PaddedPayloads == {Copy(Zeros(PageSize), b) : b \in Payloads \cup {<<>>}}

\* C4: pages obtained as Alloc().WithNum(Freelist().Next()), filled and
\* written with Pager.Write, survive close and reopen: after a successful
\* Flush and a Close, NewPager on the same path succeeds and Read(n) returns,
\* for every written page number n, page n holding exactly the bytes last
\* written to n, the payload followed by zero padding.
C4_DataSurvivesReopen ==
  (op = "NewPager/recover" /\ flushed.ok)
     => /\ err = "nil"
        /\ IsOpen
        /\ \A n \in DOMAIN written :
              /\ PagerRead(file, n) = [err |-> "nil", pg |-> [Num |-> n, Data |-> written[n]]]
              /\ written[n] \in PaddedPayloads

C4_Witness ==
  /\ op = "NewPager/recover" /\ flushed.ok /\ err = "nil"
  /\ DOMAIN written = {2, 3}
  /\ written[2] = Copy(Zeros(PageSize), <<101, 102>>)
  /\ written[3] = Copy(Zeros(PageSize), <<100>>)
  /\ PagerRead(file, 3).pg.Data = written[3]
  /\ pgr.flist.Max = 4

\* C5 as stated: for every Freelist reachable through Next and Release, with
\* any number of released entries, after a successful Flush and a Close,
\* NewPager on the same path succeeds and recovers the flushed Metainfo and a
\* Freelist with the Max and the Released entries it had at the Flush.
C5_FlushReopenRestores ==
  (op = "NewPager/recover" /\ flushed.ok)
     => /\ err = "nil"
        /\ IsOpen
        /\ pgr.meta = flushed.meta
        /\ pgr.flist.Max = flushed.flist.Max
        /\ pgr.flist.Released = flushed.flist.Released

\* C10: NewPager on a path that does not exist creates the file, sets up the
\* default Metainfo and Freelist and flushes them before returning: page 0
\* on disk decodes to a Metainfo pointing at page 1, and page 1 decodes to
\* the default Freelist (Max = BeginFreeBlocks, nothing released).
C10_FreshStoreSelfDescribing ==
  (op = "NewPager/create" /\ err = "nil")
     => /\ exists
        /\ IsOpen
        /\ pgr.meta = [Freelist |-> 1]
        /\ pgr.flist = [Max |-> BeginFreeBlocks, Released |-> <<>>]
        /\ LET p0 == PagerRead(file, 0)
               m == MetainfoDeserialize(ZeroMetainfo, p0.pg.Data)
               p1 == PagerRead(file, 1)
               fl == FreelistDeserialize(ZeroFreelist, p1.pg.Data)
           IN /\ p0.err = "nil" /\ m.err = "nil"
              /\ m.meta.Freelist = 1
              /\ p1.err = "nil" /\ fl.err = "nil"
              /\ fl.fl = [Max |-> BeginFreeBlocks, Released |-> <<>>]

C10_Witness ==
  /\ op = "NewPager/create" /\ err = "nil"
  /\ IsOpen
  /\ Len(file) = 2 * PageSize
  /\ file[1] = 1
  /\ file[PageSize + 1] = 2

(***************************************************************************)
(* C11: NewPager hands a Pager to the caller only if the initial Flush     *)
(* (new file) or Recovery (existing file: both page reads and both         *)
(* decodes) fully succeeded; on any failure the handle it opened is closed *)
(* and the caller gets the error and no Pager.                             *)
(***************************************************************************)
RecoverySteps(f) ==
  LET metapg == PagerRead(f, DefaultMetaPage)
      md == MetainfoDeserialize(NewMetainfo, metapg.pg.Data)
      flistpg == PagerRead(f, md.meta.Freelist)
      fd == FreelistDeserialize(NewFreelist, flistpg.pg.Data)
  IN /\ metapg.err = "nil"
     /\ md.err = "nil"
     /\ flistpg.err = "nil"
     /\ fd.err = "nil"

BothPagesFlushed(f, m, fl) ==
  /\ Len(f) >= (m.Freelist + 1) * PageSize
  /\ SubSeq(f, 1, PageSize) = Copy(Zeros(PageSize), MetainfoSerialize(m))
  /\ SubSeq(f, m.Freelist * PageSize + 1, (m.Freelist + 1) * PageSize)
        = Copy(Zeros(PageSize), FreelistSerialize(fl))

C11_OpenAllOrNothing ==
  op \in {"NewPager/create", "NewPager/recover"} =>
    /\ pgr.held <=> err = "nil"
    /\ pgr.held => pgr.f = "open"
    /\ ~pgr.held => pgr.f = "closed"
    /\ (op = "NewPager/create" /\ pgr.held) =>
          BothPagesFlushed(file, NewMetainfo, NewFreelist)
    /\ (op = "NewPager/recover" /\ pgr.held) => RecoverySteps(file)
    /\ (op = "NewPager/recover" /\ ~RecoverySteps(file)) => ~pgr.held

\* opening an existing file failed in decoding its freelist record: the
\* handle is closed and the caller holds no Pager
C11_Witness ==
  /\ op = "NewPager/recover"
  /\ err = "recover freelist: ErrWrongBytes"
  /\ pgr.f = "closed"
  /\ ~pgr.held


(***************************************************************************)
(* C12: Next, Release and Alloc never change the file; a Pager closed      *)
(* without a Flush after some Next/Release calls and then reopened         *)
(* recovers exactly the Metainfo and Freelist written by the last          *)
(* successful Flush, not the later in-memory state.                        *)
(***************************************************************************)
\* the first half, as a step property: holds
C12_AllocationLeavesFile ==
  [][op' \in {"AllocNext", "Release"} => file' = file]_vars

\* the second half: no Flush was attempted since the last successful one
C12_ReopenSeesLastFlush ==
  (op = "NewPager/recover" /\ flushed.ok) =>
    /\ err = "nil"
    /\ pgr.held
    /\ pgr.meta = flushed.meta
    /\ pgr.flist = flushed.flist

\* the second half for Freelist records that fit one page
C12_ReopenSeesLastFlushWithinPage ==
  (op = "NewPager/recover" /\ flushed.ok
     /\ Len(FreelistSerialize(flushed.flist)) <= PageSize) =>
    /\ err = "nil"
    /\ pgr.held
    /\ pgr.meta = flushed.meta
    /\ pgr.flist = flushed.flist

\* a reopen that discarded later in-memory allocation state
C12_ReopenDiscardsUnflushed ==
  /\ op = "NewPager/recover"
  /\ err = "nil"
  /\ flushed.ok
  /\ pgr.flist = flushed.flist
  /\ flushed.flist.Released = <<3>>
  /\ flushed.flist.Max = 3


(***************************************************************************)
(* C13: Flush writes the Metainfo page first and the Freelist page second  *)
(* and returns success only if both writes succeeded; if the Metainfo      *)
(* write fails the Freelist write is not attempted; the returned error     *)
(* names the structure whose write failed; the in-memory Metainfo and      *)
(* Freelist are unchanged in every case.                                   *)
(***************************************************************************)
\* every byte of g beyond the first page is the byte f had there
SameBeyondFirstPage(f, g) ==
  /\ Len(g) >= Len(f)
  /\ \A i \in (PageSize + 1)..Len(g) : i <= Len(f) /\ g[i] = f[i]

FlushStep(before, after, m, fl, e) ==
  /\ e \in {"nil", "flush metainfo: IOError", "flush freelist: IOError"}
  /\ e = "nil" => BothPagesFlushed(after, m, fl)
  /\ e = "flush metainfo: IOError" => SameBeyondFirstPage(before, after)
  /\ e = "flush freelist: IOError" =>
        /\ Len(after) >= PageSize
        /\ SubSeq(after, 1, PageSize) = Copy(Zeros(PageSize), MetainfoSerialize(m))

C13_FlushErrorHandling ==
  [][/\ op' = "Flush" =>
          /\ FlushStep(file, file', pgr.meta, pgr.flist, err')
          /\ pgr' = pgr
     /\ op' = "NewPager/create" =>
          FlushStep(<<>>, file', NewMetainfo, NewFreelist, err')]_vars

\* a Flush failed in writing the Metainfo page while the Freelist page on
\* disk was out of date: the Freelist page is still the old one
C13_Witness ==
  /\ op = "Flush"
  /\ err = "flush metainfo: IOError"
  /\ pgr.flist.Released # <<>>
  /\ SubSeq(file, PageSize + 1, 2 * PageSize)
       = Copy(Zeros(PageSize), FreelistSerialize(NewFreelist))

\* a Flush failed in writing the Freelist page, after the Metainfo page
C13_WitnessFreelist ==
  /\ op = "Flush"
  /\ err = "flush freelist: IOError"


(***************************************************************************)
(* C14: Max never decreases; it changes only in a Next made while Released *)
(* is empty; and it is strictly greater than every page number Next has    *)
(* returned by growth.                                                     *)
(***************************************************************************)
ByGrowth(t, i) == t[i].op = "Next" /\ Pending(t, i - 1) = <<>>

C14_HighWaterMark ==
  unit = "freelist" =>
    /\ flist.Max >= pre.Max
    /\ flist.Max # pre.Max => (op = "Next" /\ pre.Released = <<>>)
    /\ \A i \in 1..Len(trace) : ByGrowth(trace, i) => trace[i].v < flist.Max

\* Max grew in the last Next, after a release above Max and a reuse that
\* both left it alone
C14_Witness ==
  /\ unit = "freelist"
  /\ op = "Next"
  /\ flist.Max = pre.Max + 1
  /\ Last(trace).v = pre.Max
  /\ \E i \in 1..Len(trace) : trace[i].op = "Release" /\ trace[i].v > flist.Max
  /\ \E i \in 1..Len(trace) : trace[i].op = "Next" /\ ~ByGrowth(trace, i)


(***************************************************************************)
(* C15: under the caller contract (Release(n) only for a page n returned   *)
(* by Next and not released since), starting from a fresh Freelist,        *)
(* Released never holds a page twice, every released page is below Max,    *)
(* and Next never returns a page that is currently allocated.              *)
(***************************************************************************)
\* the pages returned by Next and not released since, after t[1..i]
RECURSIVE Allocated(_, _)
Allocated(t, i) ==
  IF i = 0 THEN {}
  ELSE IF t[i].op = "Next"
       THEN Allocated(t, i - 1) \cup {t[i].v}
       ELSE Allocated(t, i - 1) \ {t[i].v}

Contract(t) ==
  \A i \in 1..Len(t) : t[i].op = "Release" => t[i].v \in Allocated(t, i - 1)

NoDuplicates(q) == \A i, j \in 1..Len(q) : q[i] = q[j] => i = j

InPage(i, n) == n * PageSize < i /\ i <= (n + 1) * PageSize

WriteFrame(before, after, p) ==
  /\ Len(p.Data) = PageSize
  /\ Len(after) = IF Len(before) > (p.Num + 1) * PageSize
                  THEN Len(before) ELSE (p.Num + 1) * PageSize
  /\ \A i \in 1..Len(before) : ~InPage(i, p.Num) => after[i] = before[i]
  /\ PagerRead(after, p.Num) = [err |-> "nil", pg |-> p]

ReadNeedsWholePage(f) ==
  \A n \in 0..(MaxGrow + 1) :
     LET r == PagerRead(f, n)
     IN /\ r.err # "nil" <=> Len(f) < (n + 1) * PageSize
        /\ r.err # "nil" => r.pg.Data = <<>>
        /\ r.err = "nil" =>
              (r.pg.Num = n /\ r.pg.Data = SubSeq(f, n * PageSize + 1, (n + 1) * PageSize))

C16_PageAddressing ==
  [][/\ (op' = "Write" /\ err' = "nil") => WriteFrame(file, file', pg)
     /\ ReadNeedsWholePage(file')]_vars

\* a second data page was written and the first still reads back as it was
\* written, while a page beyond the end of the file cannot be read
C16_Witness ==
  /\ op = "Write"
  /\ err = "nil"
  /\ DOMAIN written = {BeginFreeBlocks, 3}
  /\ written[BeginFreeBlocks] # written[3]
  /\ \A n \in DOMAIN written : PagerRead(file, n).pg.Data = written[n]
  /\ PagerRead(file, 4).err # "nil"


(***************************************************************************)
(* C17: Page.Write(b) copies min(len(b), page size) bytes of b into the    *)
(* buffer from offset 0: longer input is truncated to the buffer length,   *)
(* the buffer length never changes, and the bytes beyond a shorter input   *)
(* keep their previous values, so a short write after a long one leaves    *)
(* stale bytes of the long one.                                            *)
(***************************************************************************)
Min(a, b) == IF a < b THEN a ELSE b

C17_PageWriteCopies ==
  [][op' = "PageWrite" =>
       /\ pg'.Num = pg.Num
       /\ Len(pg'.Data) = Len(pg.Data)
       /\ \A i \in 1..Len(pg.Data) :
             pg'.Data[i] = IF i <= Min(Len(din'), Len(pg.Data))
                           THEN din'[i] ELSE pg.Data[i]]_vars

\* a one-byte write after a three-byte one: bytes 2 and 3 are stale
C17_Witness ==
  /\ op = "PageWrite"
  /\ din = <<7>>
  /\ pg.Data = <<7, 2, 3>>

\* input longer than the buffer was truncated
C17_WitnessTruncated ==
  /\ op = "PageWrite"
  /\ Len(din) > Len(pg.Data)
  /\ pg.Data = SubSeq(din, 1, PageLen)


(***************************************************************************)
(* C18: Freelist.Equal is set equality of the released lists: for any two  *)
(* Freelists f and g, f.Equal(g) is true if and only if f.Max = g.Max and  *)
(* the set of page numbers in f.Released is the set of page numbers in     *)
(* g.Released, whatever their order.                                       *)
(***************************************************************************)
SetEqual(f, g) == f.Max = g.Max /\ SetOf(f.Released) = SetOf(g.Released)

C18_EqualIsSetEquality ==
  op = "Equal" => (eq <=> SetEqual(flist, other))

\* Equal answered true for two Freelists whose sets of released pages differ
C18_TrueOnDifferentSets ==
  /\ op = "Equal"
  /\ eq
  /\ flist.Released = <<3, 3>>
  /\ other.Released = <<3, 258>>

\* Equal answered false for two Freelists with the same set of released pages
C18_FalseOnSameSets ==
  /\ op = "Equal"
  /\ ~eq
  /\ flist.Max = other.Max
  /\ flist.Released = <<3, 3, 258>>
  /\ other.Released = <<3, 258>>

\* between Freelists whose Released lists hold no page twice
C18_EqualOnDuplicateFree ==
  (op = "Equal" /\ NoDuplicates(flist.Released) /\ NoDuplicates(other.Released))
     => (eq <=> SetEqual(flist, other))

\* Equal is not symmetric
C18_NotSymmetric ==
  /\ op = "Equal"
  /\ eq
  /\ ~FreelistEqual(other, flist)


(***************************************************************************)
(* C19: the Freelist has no internal mutual exclusion.  With the reads and *)
(* writes of Max and Released of two callers' Next calls interleaved, a    *)
(* state is reachable in which both were returned the same page number;    *)
(* when every Next and Release runs atomically, the pages returned and not *)
(* yet released are all distinct.                                          *)
(***************************************************************************)
Outstanding == callers[1].out \o callers[2].out

C19_AtomicCallsDistinct ==
  (unit = "race" /\ atomic) => NoDuplicates(Outstanding)

\* interleaved: both callers read Max before either incremented it, and
\* both hold the same new page
C19_Witness ==
  /\ unit = "race"
  /\ ~atomic
  /\ \A p \in Callers : callers[p].pc = "idle"
  /\ callers[1].out = <<BeginFreeBlocks>>
  /\ callers[2].out = <<BeginFreeBlocks>>

\* interleaved: the last step popped a released page for one caller while
\* the other, which read the same entry before, already holds it
C19_WitnessReuse ==
  /\ unit = "race"
  /\ ~atomic
  /\ op = "Next/pop"
  /\ \A p \in Callers : callers[p].pc = "idle"
  /\ \E p, q \in Callers :
        /\ p # q
        /\ Len(callers[p].out) > 0
        /\ Len(callers[q].out) > 0
        /\ callers[p].num > BeginFreeBlocks
        /\ callers[p].num = Last(callers[p].out)
        /\ callers[q].num = callers[p].num
        /\ callers[q].num = Last(callers[q].out)

\* atomic: both callers hold pages, one of them a reused one
C19_WitnessAtomic ==
  /\ unit = "race"
  /\ atomic
  /\ Len(callers[1].out) > 0
  /\ Len(callers[2].out) > 0
  /\ flist.Max > callers[1].out[1]
  /\ \E p \in Callers : callers[p].calls = MaxCalls

\* interleaved: a Next call ended in an index out of range
C19_WitnessPanic == \E p \in Callers : callers[p].pc = "panic"


(***************************************************************************)
(* C20: every page handed out can be returned and reused: for every page   *)
(* p that Next has returned from a Freelist started fresh, Release(p)      *)
(* followed by Next returns p again and does not advance Max.              *)
(***************************************************************************)
\* the last two calls were Release(p) and Next, p being allocated before
ReleasedThenNext(t) ==
  /\ Len(t) >= 3
  /\ t[Len(t)].op = "Next"
  /\ t[Len(t) - 1].op = "Release"
  /\ t[Len(t) - 1].v \in Allocated(t, Len(t) - 2)

C20_ReleasedPageComesBack ==
  (unit = "freelist" /\ op = "Next" /\ ReleasedThenNext(trace)) =>
    /\ Last(trace).v = trace[Len(trace) - 1].v
    /\ flist.Max = pre.Max

\* the same for the pages above the reserved boundary
C20_ReleasedPageComesBackAboveBoundary ==
  (unit = "freelist" /\ op = "Next" /\ ReleasedThenNext(trace)
     /\ trace[Len(trace) - 1].v > BeginFreeBlocks) =>
    /\ Last(trace).v = trace[Len(trace) - 1].v
    /\ flist.Max = pre.Max

\* page 2 was handed out and released, and the next Next grew Max instead
C20_FirstPageLost ==
  /\ unit = "freelist"
  /\ trace = << [op |-> "Next", v |-> BeginFreeBlocks],
                [op |-> "Release", v |-> BeginFreeBlocks],
                [op |-> "Next", v |-> 3] >>
  /\ flist = [Max |-> 4, Released |-> <<>>]


(***************************************************************************)
(* C21: control pages are written only by Flush: after any sequence of     *)
(* Alloc, WithNum, Page.Write, Pager.Write, Next and Release calls on an   *)
(* open Pager, page 0 and the Freelist page on disk are still those        *)
(* written by the last successful Flush, so the file can still be opened;  *)
(* Pager.Write never overwrites the Metainfo or the Freelist page.         *)
(***************************************************************************)
C21_ControlPagesOnlyByFlush ==
  flushed.ok =>
    /\ BothPagesFlushed(file, flushed.meta, flushed.flist)
    /\ RecoverySteps(file)

\* a Pager.Write replaced the Freelist page with a data page
C21_FlistPageOverwritten ==
  /\ op = "Write"
  /\ err = "nil"
  /\ flushed.ok
  /\ SubSeq(file, PageSize + 1, 2 * PageSize) = Copy(Zeros(PageSize), <<3>>)
  /\ flushed.flist = NewFreelist

\* the file was opened again after that and the Pager holds a Freelist that
\* no Flush wrote
C21_ReopenedOnOverwrittenPages ==
  /\ op = "NewPager/recover"
  /\ err = "nil"
  /\ flushed.ok
  /\ pgr.flist # flushed.flist


(***************************************************************************)
(* C22: failed decoding leaves state unchanged: when Freelist.Deserialize  *)
(* or Metainfo.Deserialize returns an error, the receiver's fields are the *)
(* same as before the call; when Pager.Recovery returns an error, the      *)
(* Pager's Metainfo and Freelist are the same as before the call.          *)
(***************************************************************************)
C22_FailedDecodeLeavesReceiver ==
  /\ (unit = "freelist" /\ op = "Deserialize" /\ err # "nil") => dec = drecv
  /\ (unit = "metainfo" /\ op = "MetaDeserialize" /\ err # "nil") => mdec = mrecv

\* the part about Metainfo.Deserialize alone
C22_FailedMetaDecodeLeavesReceiver ==
  (unit = "metainfo" /\ op = "MetaDeserialize" /\ err # "nil") => mdec = mrecv

\* the part about Pager.Recovery, called by NewPager on a Pager holding the
\* default Metainfo and Freelist
C22_FailedRecoveryLeavesPager ==
  (op = "NewPager/recover" /\ err # "nil") =>
     (pgr.meta = NewMetainfo /\ pgr.flist = NewFreelist)

\* Freelist.Deserialize failed on a record cut inside its body and left the
\* record's Max and a zeroed list of the declared length in the receiver
C22_ReceiverHalfDecoded ==
  /\ unit = "freelist"
  /\ op = "Deserialize"
  /\ err = "ErrWrongBytes"
  /\ drecv = NewFreelist
  /\ dec = [Max |-> 3, Released |-> <<0, 0>>]


(***************************************************************************)
(* C23: recovery preserves the reuse order: Serialize followed by          *)
(* Deserialize reproduces Released as the same ordered sequence, so a      *)
(* Pager reopened after a successful Flush returns from any sequence of    *)
(* Next and Release calls the same page numbers, in the same order, as the *)
(* original Pager would have returned from those calls after that Flush.   *)
(***************************************************************************)
\* the page numbers the Next calls of the call sequence cs return on fl; a
\* call is written 0 for Next and n for Release(n)
RECURSIVE Returns(_, _, _)
Returns(fl, cs, i) ==
  IF i > Len(cs) THEN <<>>
  ELSE IF cs[i] = 0
       THEN <<FreelistNext(fl).num>> \o Returns(FreelistNext(fl).fl, cs, i + 1)
       ELSE Returns(FreelistRelease(fl, cs[i]), cs, i + 1)

\* longest call sequence replayed on both Freelists
MaxReplay == 3

Replays == UNION {[1..n -> {0, 3, 258}] : n \in 0..MaxReplay}

C23_RecoveryKeepsReuseOrder ==
  (op = "NewPager/recover" /\ err = "nil" /\ flushed.ok) =>
    /\ pgr.flist.Released = flushed.flist.Released
    /\ \A cs \in Replays : Returns(pgr.flist, cs, 1) = Returns(flushed.flist, cs, 1)

\* a Pager reopened on a flushed list of two different pages: the next two
\* Next calls return them last released first
C23_Witness ==
  /\ op = "NewPager/recover"
  /\ err = "nil"
  /\ flushed.ok
  /\ flushed.flist.Released = <<4, 3>>
  /\ Returns(pgr.flist, <<0, 0>>, 1) = <<3, 4>>

\* the stand-alone round trip reproduces Released element by element
C23_RoundTripKeepsOrder ==
  (unit = "freelist" /\ op = "Deserialize" /\ din = buf) =>
     (err = "nil" /\ dec.Released = flist.Released /\ dec.Max = flist.Max)


(***************************************************************************)
(* C24: crash tolerance of the control pages: if the process stops at any  *)
(* point inside NewPager's creation path or inside a later Flush, the next *)
(* NewPager on the same path with the same page size succeeds and recovers *)
(* a Freelist equal either to the one persisted before the interrupted     *)
(* Flush or to the one that was being flushed.                             *)
(***************************************************************************)
C24_CrashTolerance ==
  [][(op = "Crash" /\ op' = "NewPager/recover") =>
       /\ err' = "nil"
       /\ pgr'.flist \in {flushed.flist, pgr.flist}]_vars

\* the weaker statement that a reopen which succeeds after a crash holds one
\* of the two Freelists
C24_RecoveredIsOldOrNew ==
  [][(op = "Crash" /\ op' = "NewPager/recover" /\ err' = "nil" /\ flushed.ok) =>
       pgr'.flist \in {flushed.flist, pgr.flist}]_vars

\* the process stopped in the creation path before the first write; the
\* file exists and is empty, and NewPager fails on it
C24_EmptyFileCannotBeOpened ==
  /\ op = "NewPager/recover"
  /\ file = <<>>
  /\ err = "recover metainfo: IOError"


\* the process stopped four bytes into the Freelist write of a Flush of
\* Max 3, Released <<3>> over Max 2, Released <<>>: the reopened Pager holds
\* the new Max with the old list
C24_MixedFreelistRecovered ==
  /\ op = "NewPager/recover"
  /\ err = "nil"
  /\ flushed.ok
  /\ flushed.flist = NewFreelist
  /\ pgr.flist = [Max |-> 3, Released |-> <<>>]

====
